---- MODULE Spec2Model ----
(***************************************************************************)
(* Opening-mistake detection of chess-analyzer: the analysis pipeline      *)
(* (utils/analysis.py, duplicated in app.py) and the job host around it    *)
(* (app.py: upload, clear_pgns, start_analysis, analyze_async,             *)
(* load_mistakes).                                                         *)
(*                                                                         *)
(* The specifications share the variables:                                 *)
(*   SpecRun   one call of analyze_pgn, candidate by candidate, against an *)
(*             oracle whose replies are chosen at each query;              *)
(*   SpecFix   the same call on corpora in which every game occurs twice,  *)
(*             against an oracle whose reply depends on the position only; *)
(*   SpecBest  score_to_cp and the acceptable-move computation applied to  *)
(*             one multi-line oracle reply;                                *)
(*   SpecPairs collect_move_pairs applied to one corpus;                   *)
(*   SpecStats compute_analysis_stats applied to one collection;           *)
(*   SpecStore the reads and deletions of one side's stored files;         *)
(*   SpecRace  delete requests, read and write apart, beside the runs of   *)
(*             one side;                                                   *)
(*   Spec      the job host: the per-side files of one user, the request   *)
(*             handlers and the background tasks (FairSpec adds the        *)
(*             fairness of the background threads).                        *)
(***************************************************************************)
EXTENDS Integers, Sequences, FiniteSets, TLC

VARIABLES
    \* ---- one call of analyze_pgn (SpecRun) ----
    corpus,          \* the games still to be read from the PGN file
    color,           \* "white" | "black": the side analysed
    pc,              \* position of the call
    pairs,           \* pair_counts and pair_fens, in dict insertion order
    candidates,      \* the filtered, sorted candidate list
    idx,             \* index of the next candidate of the for loop
    position_cache,  \* pos_key -> (best_score, top_moves)
    after_cache,     \* after_key -> score or None
    mistakes,        \* the list of mistake dicts
    engine,          \* "none" | "open" | "quit": the oracle session
    oracle,          \* None: replies are chosen at each query; <<o>>: o answers
    queries,         \* history: the oracle queries issued, in order
    lossLog,         \* history: every cp_loss computed at line 190
    \* ---- score_to_cp / acceptable moves on one reply (SpecBest) ----
    bl_in,           \* the input: [turn, infos]
    bl_out,          \* the entry computed for position_cache
    \* ---- the job host (Spec) ----
    pgn_file,        \* side -> NoFile | <<corpus>>
    analysis_file,   \* side -> NoFile | <<list of mistakes>>
    flag_file,       \* side -> BOOLEAN: analysis_<side>.processing exists
    error_file,      \* side -> NoFile | <<reason>>
    engine_status,   \* _ENGINE_STATUS: "unset" | "ok"
    runs,            \* id -> the live background task started by analyze_async
                     \*   (avail: whether Stockfish can be started during it;
                     \*    wrote: history of what the task has written)
    nStarted,        \* number of tasks started so far
    sessionLog,      \* history: the engine sessions opened and who opened them
    \* ---- one read or delete request on stored files (SpecStore) ----
    response,        \* None, or <<the outcome of the last request>>
    requests         \* delete requests in progress or served (SpecRace)

runVars  == <<corpus, color, pc, pairs, candidates, idx, position_cache,
              after_cache, mistakes, engine, oracle, queries, lossLog>>
bestVars == <<bl_in, bl_out>>
hostVars == <<pgn_file, analysis_file, flag_file, error_file, engine_status,
              runs, nStarted, sessionLog>>
storeVars == <<response, requests>>
vars     == <<runVars, bestVars, storeVars, hostVars>>

(***************************************************************************)
(* Configuration (config.py).  OPENING_PLIES_LIMIT is read from the        *)
(* environment; the model runs with it set to 4 so that the games of the   *)
(* model are longer than the horizon.                                      *)
(***************************************************************************)
MULTIPV == 5
OPENING_PLIES_LIMIT == 4
MAX_GAMES_PER_UPLOAD == 1000
MISTAKE_THRESHOLD_CP == 100
TOP_MOVE_THRESHOLD_CP == 30
MIN_PAIR_OCCURRENCES == 2
MATE_SCORE_CP == 10000

\* Bounds of the model.
MaxPlies == 5      \* longest game
MaxGames == 2      \* games per corpus
MaxRuns  == 2      \* background tasks started per behaviour
MaxStored == 2     \* records in a stored collection (SpecStore)
MaxDeletes == 2    \* delete requests per behaviour (SpecRace)
MaxStats == 3      \* records in a collection given to compute_analysis_stats

Colors == {"white", "black"}

\* Python's None and a present value.
None == <<>>
Some(v) == <<v>>

Min(a, b) == IF a <= b THEN a ELSE b

\* dict.get(key, default)
Get(m, key, default) == IF key \in DOMAIN m THEN m[key] ELSE default

(***************************************************************************)
(* The chess rules engine (python-chess), as a small opening tree.  Two    *)
(* move orders reach T: 1.Nf3 d5 2.d4 and 1.d4 d5 2.Nf3; the second ends   *)
(* with a piece move, so the two boards differ in the halfmove clock of    *)
(* their FEN and agree in everything position_key keeps.                   *)
(***************************************************************************)
Edges ==
    { [from |-> "S", move |-> "g1f3", to |-> "A", pawn |-> FALSE],
      [from |-> "S", move |-> "d2d4", to |-> "B", pawn |-> TRUE],
      [from |-> "A", move |-> "d7d5", to |-> "C", pawn |-> TRUE],
      [from |-> "B", move |-> "d7d5", to |-> "D", pawn |-> TRUE],
      [from |-> "C", move |-> "d2d4", to |-> "T", pawn |-> TRUE],
      [from |-> "D", move |-> "g1f3", to |-> "T", pawn |-> FALSE],
      [from |-> "T", move |-> "e7e6", to |-> "U", pawn |-> TRUE],
      [from |-> "U", move |-> "e2e3", to |-> "W", pawn |-> TRUE] }

\* A second legal move per position, which no game of the model plays.
OtherLegal ==
    [k \in {"S", "A", "B", "C", "D", "T", "U", "W"} |->
        CASE k = "S" -> {}
          [] k \in {"A", "B"} -> {"g8f6"}
          [] k \in {"C", "D"} -> {"c2c4"}
          [] k = "T" -> {"c7c5"}
          [] k = "U" -> {"c2c4"}
          [] OTHER -> {"e7e6"}]

Keys == DOMAIN OtherLegal
WhiteKeys == {"S", "C", "D", "U"}

\* board.turn
Turn(k) == IF k \in WhiteKeys THEN "w" ELSE "b"

PlayedMoves(k) == {e.move : e \in {x \in Edges : x.from = k}}
\* board.legal_moves
LegalMoves(k) == PlayedMoves(k) \cup OtherLegal[k]
Edge(k, m) == CHOOSE e \in Edges : e.from = k /\ e.move = m

\* A board: the position and the halfmove clock (the move-count part of a FEN).
StartBoard == [key |-> "S", hm |-> 0]
\* board.push(move)
Push(b, m) ==
    LET e == Edge(b.key, m) IN
    [key |-> e.to, hm |-> IF e.pawn THEN 0 ELSE b.hm + 1]
\* board.fen(): everything, the clock included
Fen(b) == <<b.key, b.hm>>
\* chess.Board(fen)
BoardOf(fen) == [key |-> fen[1], hm |-> fen[2]]
\* position_key(board): placement, side to move, castling, en passant; no clock
position_key(b) == b.key

\* The games of the model: the move sequences of the tree, up to MaxPlies.
RECURSIVE BoardAfter(_)
BoardAfter(g) ==
    IF g = <<>> THEN StartBoard
    ELSE Push(BoardAfter(SubSeq(g, 1, Len(g) - 1)), g[Len(g)])

RECURSIVE GamesUpTo(_)
GamesUpTo(n) ==
    IF n = 0 THEN {<<>>}
    ELSE LET prev == GamesUpTo(n - 1) IN
         prev \cup {Append(g, m) : <<g, m>> \in
                      {x \in prev \X {e.move : e \in Edges} :
                          /\ Len(x[1]) = n - 1
                          /\ x[2] \in PlayedMoves(BoardAfter(x[1]).key)}}

Games == GamesUpTo(MaxPlies)

RECURSIVE SeqsUpTo(_, _)
SeqsUpTo(S, n) ==
    IF n = 0 THEN {<<>>}
    ELSE LET prev == SeqsUpTo(S, n - 1) IN
         prev \cup {Append(s, x) : <<s, x>> \in {y \in prev \X S : Len(y[1]) = n - 1}}

Corpora == SeqsUpTo(Games, MaxGames)

(***************************************************************************)
(* The position evaluation oracle.  A score is relative to the side to     *)
(* move at the query (chess.engine.PovScore): centipawns or mate in n.     *)
(* A multi-line reply lists its lines best first for the side to move,     *)
(* each with a different first move.                                       *)
(***************************************************************************)
Cp(x) == [kind |-> "cp", v |-> x]
Mate(n) == [kind |-> "mate", v |-> n]

\* Relative scores the oracle of SpecRun replies with.
RelScores == {Cp(-60), Cp(10), Cp(20), Cp(50), Cp(60)}

\* Relative value used only to order the lines of a reply.
RelOrder(s) == IF s.kind = "cp" THEN s.v
               ELSE IF s.v > 0 THEN 100000 - s.v ELSE -100000 - s.v

Info(m, s) == [pv |-> <<m>>, score |-> Some(s)]
NoScoreInfo(m) == [pv |-> <<m>>, score |-> None]

Failed == [ok |-> FALSE, infos |-> <<>>]      \* chess.engine.EngineError
Reply(infos) == [ok |-> TRUE, infos |-> infos]

\* The lists of 1..MULTIPV lines over the legal moves of a position.
LinesOver(moves, scores) ==
    LET n == Min(MULTIPV, Cardinality(moves))
        all == SeqsUpTo({Info(m, s) : m \in moves, s \in scores}, n)
    IN {l \in all :
          /\ Len(l) >= 1
          /\ \A i, j \in 1..Len(l) :
                i < j => /\ l[i].pv # l[j].pv
                         /\ RelOrder(l[i].score[1]) >= RelOrder(l[j].score[1])}

MultiReplies(k) ==
    {Failed}
      \cup {Reply(<<NoScoreInfo(CHOOSE m \in LegalMoves(k) : TRUE)>>)}
      \cup {Reply(l) : l \in LinesOver(LegalMoves(k), RelScores)}

SingleReplies ==
    {Failed} \cup {Reply(<<[pv |-> <<>>, score |-> None]>>)}
      \cup {Reply(<<[pv |-> <<>>, score |-> Some(s)]>>) : s \in RelScores}

(***************************************************************************)
(* score_to_cp: PovScore.white() negates a score given from Black's side;  *)
(* Score.score(mate_score) maps mate in n to mate_score - n (n > 0) or     *)
(* -mate_score - n (n < 0).                                                *)
(***************************************************************************)
Negate(s) == [s EXCEPT !.v = -@]
WhitePov(s, turn) == IF turn = "w" THEN s ELSE Negate(s)
ScoreValue(s) ==
    IF s.kind = "cp" THEN s.v
    ELSE IF s.v > 0 THEN MATE_SCORE_CP - s.v ELSE -MATE_SCORE_CP - s.v

score_to_cp(score, turn) ==
    IF score = None THEN None
    ELSE Some(ScoreValue(WhitePov(score[1], turn)))

(***************************************************************************)
(* collect_move_pairs.  pairs is pair_counts and pair_fens together: one   *)
(* record per (position key, move) in the order the dict received them.    *)
(***************************************************************************)
HasPair(ps, k, m) == \E i \in 1..Len(ps) : ps[i].key = k /\ ps[i].move = m

RecordPair(ps, k, m, fen) ==
    IF HasPair(ps, k, m)
    THEN [i \in 1..Len(ps) |->
            IF ps[i].key = k /\ ps[i].move = m
            THEN [ps[i] EXCEPT !.count = @ + 1] ELSE ps[i]]
    ELSE Append(ps, [key |-> k, move |-> m, count |-> 1, fen |-> fen])

\* Mutant of BeyondHorizon: the ply at the limit is still counted.
BeyondHorizonLate(ply_index) == ply_index > OPENING_PLIES_LIMIT

\* Line 97.
BeyondHorizon(ply_index) == ply_index >= OPENING_PLIES_LIMIT

TargetTurn(c) == IF c = "white" THEN "w" ELSE "b"

RECURSIVE WalkGame(_, _, _, _, _)
WalkGame(g, ply_index, board, c, ps) ==
    IF ply_index >= Len(g) \/ BeyondHorizon(ply_index) THEN ps
    ELSE LET move == g[ply_index + 1] IN
         IF Turn(board.key) # TargetTurn(c)
         THEN WalkGame(g, ply_index + 1, Push(board, move), c, ps)
         ELSE WalkGame(g, ply_index + 1, Push(board, move), c,
                       RecordPair(ps, position_key(board), move, Fen(board)))

RECURSIVE WalkGames(_, _, _, _)
WalkGames(games, i, c, ps) ==
    IF i > Len(games) THEN ps
    ELSE WalkGames(games, i + 1, c, WalkGame(games[i], 0, StartBoard, c, ps))

collect_move_pairs(games, c) == WalkGames(games, 1, c, <<>>)

(***************************************************************************)
(* Stable descending sort, as list.sort(key=..., reverse=True): items is a *)
(* sequence of [k |-> <<a, b>>, v |-> item]; equal keys keep their order.  *)
(***************************************************************************)
KeyLess(x, y) == x[1] < y[1] \/ (x[1] = y[1] /\ x[2] < y[2])

\* Mutant of InsertDesc: an item is put before the items of equal key.
InsertDescBeforeTies(s, x) ==
    LET before == {i \in 1..Len(s) : KeyLess(x.k, s[i].k)}
        n == IF before = {} THEN 0 ELSE CHOOSE i \in before : \A j \in before : j <= i
    IN SubSeq(s, 1, n) \o <<x>> \o SubSeq(s, n + 1, Len(s))

InsertDesc(s, x) ==
    LET before == {i \in 1..Len(s) : ~KeyLess(s[i].k, x.k)}
        n == IF before = {} THEN 0 ELSE CHOOSE i \in before : \A j \in before : j <= i
    IN SubSeq(s, 1, n) \o <<x>> \o SubSeq(s, n + 1, Len(s))

RECURSIVE SortDescFrom(_, _, _)
SortDescFrom(items, i, acc) ==
    IF i > Len(items) THEN acc
    ELSE SortDescFrom(items, i + 1, InsertDesc(acc, items[i]))

SortDesc(items) == SortDescFrom(items, 1, <<>>)
Values(items) == [i \in 1..Len(items) |-> items[i].v]

\* Mutant of IsCandidate: every pair seen is a candidate.
IsCandidateAny(count) == count >= 1

\* Lines 113-117: the candidates, most frequent first.
IsCandidate(count) == count >= MIN_PAIR_OCCURRENCES

SelectCandidates(ps) ==
    LET kept == SelectSeq(ps, LAMBDA p : IsCandidate(p.count))
    IN Values(SortDesc([i \in 1..Len(kept) |-> [k |-> <<kept[i].count, 0>>, v |-> kept[i]]]))

\* Mutant of RankMistakes: the records are returned as emitted.
RankUnsorted(ms) == ms

\* Mutant of RankMistakes: the severity is left out of the sort key.
RankByCountOnly(ms) ==
    Values(SortDesc([i \in 1..Len(ms) |-> [k |-> <<ms[i].pair_count, 0>>, v |-> ms[i]]]))

\* Line 210: the final order of the mistakes.
RankMistakes(ms) ==
    Values(SortDesc([i \in 1..Len(ms) |->
                        [k |-> <<ms[i].pair_count, ms[i].avg_cp_loss>>, v |-> ms[i]]]))

(***************************************************************************)
(* compute_analysis_stats, lines 231-265.  round() is Python's: a half is  *)
(* rounded to the even neighbour.                                          *)
(***************************************************************************)
RECURSIVE SumSeq(_)
SumSeq(xs) == IF xs = <<>> THEN 0 ELSE xs[1] + SumSeq(Tail(xs))

\* Mutant of RoundDiv: the quotient is truncated.
RoundDivFloor(n, d) == n \div d

\* round(n / d) for d > 0
RoundDiv(n, d) ==
    LET q == n \div d
        r == n % d
    IN IF 2 * r < d THEN q
       ELSE IF 2 * r > d THEN q + 1
       ELSE IF q % 2 = 0 THEN q ELSE q + 1

\* cp_values.sort(): ascending
SortedAsc(xs) ==
    LET desc == Values(SortDesc([i \in 1..Len(xs) |-> [k |-> <<xs[i], 0>>, v |-> xs[i]]]))
    IN [i \in 1..Len(desc) |-> desc[Len(desc) + 1 - i]]

CountColor(ms, c) ==
    Cardinality({i \in 1..Len(ms) : Get(ms[i], "color", "") = c})

compute_analysis_stats(ms) ==
    IF ms = <<>>
    THEN [total |-> 0, avg_cp |-> 0, median_cp |-> 0, total_frequency |-> 0,
          max_cp |-> 0, white_count |-> 0, black_count |-> 0]
    ELSE LET cp_values == SortedAsc([i \in 1..Len(ms) |-> ms[i].avg_cp_loss])
             n == Len(cp_values)
             mid == n \div 2
         IN [total |-> Len(ms),
             avg_cp |-> RoundDiv(SumSeq(cp_values), n),
             median_cp |-> IF n % 2 = 1 THEN cp_values[mid + 1]
                           ELSE RoundDiv(cp_values[mid] + cp_values[mid + 1], 2),
             total_frequency |-> SumSeq([i \in 1..Len(ms) |-> ms[i].pair_count]),
             max_cp |-> cp_values[n],
             white_count |-> CountColor(ms, "white"),
             black_count |-> CountColor(ms, "black")]

(***************************************************************************)
(* analyze_pgn, lines 137-158: the entry of position_cache computed from a *)
(* multi-line reply.                                                       *)
(***************************************************************************)
\* Line 156: the line's move is kept as a top move.
WithinTolerance(best_score, mv_score) ==
    best_score - mv_score <= TOP_MOVE_THRESHOLD_CP

RECURSIVE TopMovesFrom(_, _, _, _, _)
TopMovesFrom(infos, i, best_score, turn, top_moves) ==
    IF i > Len(infos) THEN top_moves
    ELSE LET info == infos[i]
             mv_score == score_to_cp(info.score, turn)
         IN IF info.pv = <<>> \/ mv_score = None
            THEN TopMovesFrom(infos, i + 1, best_score, turn, top_moves)
            ELSE IF WithinTolerance(best_score, mv_score[1])
            THEN TopMovesFrom(infos, i + 1, best_score, turn,
                              Append(top_moves, info.pv[1]))
            ELSE TopMovesFrom(infos, i + 1, best_score, turn, top_moves)

BestLineFor(reply, turn) ==
    IF ~reply.ok THEN [best |-> None, top |-> <<>>]
    ELSE LET best_score == score_to_cp(reply.infos[1].score, turn) IN
         [best |-> best_score,
          top  |-> IF best_score = None THEN <<>>
                   ELSE TopMovesFrom(reply.infos, 1, best_score[1], turn, <<>>)]

\* Lines 178-183: the entry of after_cache computed from a single-line reply.
\* Mutant of ScoreAfterOf: a failed request counts as a lost position.
ScoreAfterOfLost(reply, turn) ==
    IF ~reply.ok THEN Some(-MATE_SCORE_CP) ELSE score_to_cp(reply.infos[1].score, turn)

ScoreAfterOf(reply, turn) ==
    IF ~reply.ok THEN None ELSE score_to_cp(reply.infos[1].score, turn)

InSeq(x, s) == \E i \in 1..Len(s) : s[i] = x

\* Mutant of IsTopMove: the exemption of the top moves is dropped.
IsTopMoveNever(user_move, top_moves) == FALSE

\* Line 171: the played move is one of the top moves.
IsTopMove(user_move, top_moves) == top_moves # <<>> /\ InSeq(user_move, top_moves)

\* Mutant of CpLoss: the loss taken from White's side whoever moved.
CpLossWhiteSide(best_score, score_after, mover_is_white) ==
    best_score - score_after

\* Line 190.
CpLoss(best_score, score_after, mover_is_white) ==
    IF mover_is_white THEN best_score - score_after ELSE score_after - best_score

\* Mutant of IsMistake: a loss equal to the threshold is reported.
IsMistakeInclusive(cp_loss) == cp_loss >= MISTAKE_THRESHOLD_CP

\* Line 191, negated: the loss is reported.
IsMistake(cp_loss) == ~(cp_loss <= MISTAKE_THRESHOLD_CP)

\* Lines 194-203 of utils/analysis.py; app.py lines 406-414 leave "color" out.
MistakeRecord(impl, fen, user_move, top_moves, cp_loss, count, c) ==
    IF impl = "utils"
    THEN [fen |-> fen, user_move |-> user_move, top_moves |-> top_moves,
          avg_cp_loss |-> cp_loss, pair_count |-> count, color |-> c]
    ELSE [fen |-> fen, user_move |-> user_move, top_moves |-> top_moves,
          avg_cp_loss |-> cp_loss, pair_count |-> count]

\* Mutant of Cached: the caches are never consulted.
CachedNever(key, cache) == FALSE

\* Lines 137 and 177: the key has an entry, whatever the entry holds.
Cached(key, cache) == key \in DOMAIN cache

Query(kind, key, cand) == [kind |-> kind, key |-> key, pair |-> <<cand.key, cand.move>>]

(***************************************************************************)
(* One iteration of the for loop, lines 128-203.  st holds the locals      *)
(* position_cache, after_cache and mistakes, and the histories queries and *)
(* lossLog; mreply and areply are what the oracle answers if asked.        *)
(***************************************************************************)
ProcessCandidate(impl, st, cand, c, mreply, areply) ==
    LET pos_key == cand.key
        user_move == cand.move
        board == BoardOf(cand.fen)
        st1 == IF Cached(pos_key, st.position_cache) THEN st
               ELSE [st EXCEPT
                       !.position_cache = @ @@ (pos_key :> BestLineFor(mreply, Turn(board.key))),
                       !.queries = Append(@, Query("multi", pos_key, cand))]
        entry == st1.position_cache[pos_key]
    IN  IF entry.best = None THEN st1
        ELSE IF user_move \notin LegalMoves(board.key) THEN st1
        ELSE IF IsTopMove(user_move, entry.top) THEN st1
        ELSE
          LET board_after == Push(board, user_move)
              after_key == position_key(board_after)
              st2 == IF Cached(after_key, st1.after_cache) THEN st1
                     ELSE [st1 EXCEPT
                             !.after_cache = @ @@ (after_key :> ScoreAfterOf(areply, Turn(board_after.key))),
                             !.queries = Append(@, Query("single", after_key, cand))]
              score_after == st2.after_cache[after_key]
          IN  IF score_after = None THEN st2
              ELSE
                LET mover_is_white == Turn(board.key) = "w"
                    cp_loss == CpLoss(entry.best[1], score_after[1], mover_is_white)
                    st3 == [st2 EXCEPT !.lossLog = @ \cup
                              {[key |-> pos_key, move |-> user_move, loss |-> cp_loss]}]
                IN  IF ~IsMistake(cp_loss) THEN st3
                    ELSE [st3 EXCEPT !.mistakes = Append(@,
                            MistakeRecord(impl, cand.fen, user_move, entry.top,
                                          cp_loss, cand.count, c))]

EmptyFun == [x \in {} |-> x]
Locals0 == [position_cache |-> EmptyFun, after_cache |-> EmptyFun,
            mistakes |-> <<>>, queries |-> <<>>, lossLog |-> {}]

(***************************************************************************)
(* SpecRun: one call analyze_pgn(paths, color) of utils/analysis.py.       *)
(***************************************************************************)
BestIdle == bl_in = None /\ bl_out = None
StoreIdle == response = None /\ requests = EmptyFun
HostIdle ==
    /\ pgn_file = [c \in Colors |-> None]
    /\ analysis_file = [c \in Colors |-> None]
    /\ flag_file = [c \in Colors |-> FALSE]
    /\ error_file = [c \in Colors |-> None]
    /\ engine_status = "unset"
    /\ runs = EmptyFun
    /\ nStarted = 0
    /\ sessionLog = {}
RunIdle ==
    /\ corpus = <<>> /\ color = "white" /\ pc = "idle" /\ pairs = <<>>
    /\ candidates = <<>> /\ idx = 1 /\ position_cache = EmptyFun
    /\ after_cache = EmptyFun /\ mistakes = <<>> /\ engine = "none"
    /\ oracle = None /\ queries = <<>> /\ lossLog = {}

InitRun ==
    /\ corpus \in Corpora
    /\ color \in Colors
    /\ pc = "collect"
    /\ pairs = <<>> /\ candidates = <<>> /\ idx = 1
    /\ position_cache = EmptyFun /\ after_cache = EmptyFun
    /\ mistakes = <<>> /\ engine = "none" /\ queries = <<>> /\ lossLog = {}
    /\ oracle = None
    /\ BestIdle /\ HostIdle /\ StoreIdle

\* Lines 112-115: collect, select; with no candidate the call returns [].
RunCollect ==
    /\ pc = "collect"
    /\ pairs' = collect_move_pairs(corpus, color)
    /\ candidates' = SelectCandidates(pairs')
    /\ pc' = IF candidates' = <<>> THEN "done" ELSE "start"
    /\ corpus' = <<>>      \* the file is read once and closed
    /\ UNCHANGED <<color, idx, position_cache, after_cache, mistakes,
                   engine, oracle, queries, lossLog, bestVars, storeVars, hostVars>>

\* Line 124: start_stockfish() returns a session or raises RuntimeError.
RunStartEngine ==
    /\ pc = "start"
    /\ \E ok \in BOOLEAN :
          /\ pc' = IF ok THEN "loop" ELSE "raised"
          /\ engine' = IF ok THEN "open" ELSE "none"
    /\ UNCHANGED <<corpus, color, pairs, candidates, idx, position_cache,
                   after_cache, mistakes, oracle, queries, lossLog, bestVars, storeVars, hostVars>>

\* Line 174-176: the key of the position after the candidate's move.
AfterKey(cand) ==
    IF cand.move \in PlayedMoves(cand.key)
    THEN position_key(Push(BoardOf(cand.fen), cand.move)) ELSE cand.key

\* What engine.analyse can answer at a position.
MultiAnswers(k) == IF oracle = None THEN MultiReplies(k) ELSE {oracle[1].multi[k]}
SingleAnswers(k) == IF oracle = None THEN SingleReplies ELSE {oracle[1].single[k]}

\* Lines 128-203: the next candidate.
RunProcess ==
    /\ pc = "loop" /\ idx <= Len(candidates)
    /\ \E mreply \in MultiAnswers(candidates[idx].key),
          areply \in SingleAnswers(AfterKey(candidates[idx])) :
          LET st == [position_cache |-> position_cache, after_cache |-> after_cache,
                     mistakes |-> mistakes, queries |-> queries, lossLog |-> lossLog]
              nx == ProcessCandidate("utils", st, candidates[idx], color, mreply, areply)
          IN /\ position_cache' = nx.position_cache
             /\ after_cache' = nx.after_cache
             /\ mistakes' = nx.mistakes
             /\ queries' = nx.queries
             /\ lossLog' = nx.lossLog
    /\ idx' = idx + 1
    /\ UNCHANGED <<corpus, color, pc, pairs, candidates, engine, oracle,
                   bestVars, storeVars, hostVars>>

\* Lines 204-211: engine.quit(), the final sort, return.
RunFinish ==
    /\ pc = "loop" /\ idx > Len(candidates)
    /\ engine' = "quit"
    /\ mistakes' = RankMistakes(mistakes)
    /\ pc' = "done"
    /\ UNCHANGED <<corpus, color, pairs, candidates, idx, position_cache,
                   after_cache, oracle, queries, lossLog, bestVars, storeVars, hostVars>>

NextRun == RunCollect \/ RunStartEngine \/ RunProcess \/ RunFinish

SpecRun == InitRun /\ [][NextRun]_vars

(***************************************************************************)
(* SpecFix: the call on a corpus in which every game occurs twice, so that *)
(* several candidates share a position or the position after their move,   *)
(* against an oracle that answers each position in one way.  The oracle's  *)
(* best move is one no game plays (at S, where both moves are played,      *)
(* g1f3); its requests fail at the positions of failM (multi-line) and     *)
(* failS (single-line); the best line is worth 60 at the positions of hi   *)
(* and 50 elsewhere, and every position after a move 60 for its mover.     *)
(* No command of the session raises anything but an EngineError.           *)
(***************************************************************************)
BestMove(k) == IF OtherLegal[k] = {} THEN "g1f3" ELSE CHOOSE m \in OtherLegal[k] : TRUE

FixOracle(failM, failS, hi) ==
    [multi  |-> [k \in Keys |->
                   IF k \in failM THEN Failed
                   ELSE Reply(<<Info(BestMove(k), Cp(IF k \in hi THEN 60 ELSE 50))>>)],
     single |-> [k \in Keys |->
                   IF k \in failS THEN Failed
                   ELSE Reply(<<[pv |-> <<>>, score |-> Some(Cp(60))]>>)],
     raises |-> FALSE]

FixOracles ==
    {FixOracle(failM, failS, hi) :
        failM \in {{}, {"S"}, {"T"}, {"C"}}, failS \in {{}, {"T"}}, hi \in {{}, {"D", "B"}}}

RepeatedCorpora == {c \o c : c \in Corpora}

InitFix ==
    /\ corpus \in RepeatedCorpora
    /\ color \in Colors
    /\ oracle \in {Some(o) : o \in FixOracles}
    /\ pc = "collect"
    /\ pairs = <<>> /\ candidates = <<>> /\ idx = 1
    /\ position_cache = EmptyFun /\ after_cache = EmptyFun
    /\ mistakes = <<>> /\ engine = "none" /\ queries = <<>> /\ lossLog = {}
    /\ BestIdle /\ HostIdle /\ StoreIdle

SpecFix == InitFix /\ [][NextRun]_vars

(***************************************************************************)
(* analyze_pgn as one function: what a background task computes from the   *)
(* games it reads, whether start_stockfish() succeeds, and an oracle that  *)
(* answers each position in one way.                                       *)
(***************************************************************************)
StockfishError == "Unable to start Stockfish. Tried: stockfish."
\* str(exc) of an exception that is not an EngineError.
UnexpectedError == "unexpected error"

RECURSIVE AnalyzeFrom(_, _, _, _, _, _)
AnalyzeFrom(impl, cands, i, c, o, st) ==
    IF i > Len(cands) THEN st
    ELSE LET cand == cands[i]
         IN AnalyzeFrom(impl, cands, i + 1, c, o,
                        ProcessCandidate(impl, st, cand, c,
                                         o.multi[cand.key], o.single[AfterKey(cand)]))

\* Mutant of analyze_pgn: a failed engine start is swallowed, the call returns [].
analyze_pgn_swallow(impl, games, c, engine_ok, o) ==
    LET cands == SelectCandidates(collect_move_pairs(games, c)) IN
    IF cands = <<>> \/ ~engine_ok
    THEN [kind |-> "returned", mistakes |-> <<>>, engine |-> "none", ncand |-> Len(cands)]
    ELSE [kind |-> "returned",
          mistakes |-> RankMistakes(AnalyzeFrom(impl, cands, 1, c, o, Locals0).mistakes),
          engine |-> "quit", ncand |-> Len(cands)]

\* Mutant of analyze_pgn: no finally clause, an exception leaves the session open.
analyze_pgn_noquit(impl, games, c, engine_ok, o) ==
    LET cands == SelectCandidates(collect_move_pairs(games, c)) IN
    IF cands = <<>>
    THEN [kind |-> "returned", mistakes |-> <<>>, engine |-> "none", ncand |-> 0]
    ELSE IF ~engine_ok
    THEN [kind |-> "raised", reason |-> StockfishError, engine |-> "none",
          ncand |-> Len(cands)]
    ELSE IF o.raises
    THEN [kind |-> "raised", reason |-> UnexpectedError, engine |-> "open",
          ncand |-> Len(cands)]
    ELSE [kind |-> "returned",
          mistakes |-> RankMistakes(AnalyzeFrom(impl, cands, 1, c, o, Locals0).mistakes),
          engine |-> "quit", ncand |-> Len(cands)]

\* Lines 110-211.  An exception that is not an EngineError, raised inside the
\* try block (o.raises), passes through the finally clause, which quits the
\* session, and leaves the call.
analyze_pgn(impl, games, c, engine_ok, o) ==
    LET cands == SelectCandidates(collect_move_pairs(games, c)) IN
    IF cands = <<>>
    THEN [kind |-> "returned", mistakes |-> <<>>, engine |-> "none", ncand |-> 0]
    ELSE IF ~engine_ok
    THEN [kind |-> "raised", reason |-> StockfishError, engine |-> "none",
          ncand |-> Len(cands)]
    ELSE IF o.raises
    THEN [kind |-> "raised", reason |-> UnexpectedError, engine |-> "quit",
          ncand |-> Len(cands)]
    ELSE [kind |-> "returned",
          mistakes |-> RankMistakes(AnalyzeFrom(impl, cands, 1, c, o, Locals0).mistakes),
          engine |-> "quit", ncand |-> Len(cands)]

(***************************************************************************)
(* The oracles and uploads of the job host model.  Sharp prefers the move  *)
(* not played at S and at B and rates the played one 120 worse; Calm       *)
(* returns the played move as its only line everywhere.                    *)
(***************************************************************************)
HostGame == <<"d2d4", "d7d5", "g1f3", "e7e6", "e2e3">>
HostUploads == {<<HostGame>>, <<HostGame, HostGame>>}

OnlyLine(k) ==
    Reply(<<Info(IF PlayedMoves(k) = {} THEN CHOOSE m \in LegalMoves(k) : TRUE
                 ELSE CHOOSE m \in PlayedMoves(k) : m # "g1f3" \/ k # "S", Cp(20))>>)

Calm == [multi  |-> [k \in Keys |-> OnlyLine(k)],
         single |-> [k \in Keys |-> Reply(<<[pv |-> <<>>, score |-> Some(Cp(-20))]>>)],
         raises |-> FALSE]

Sharp == [multi  |-> [k \in Keys |->
                        IF k = "S" THEN Reply(<<Info("g1f3", Cp(60)), Info("d2d4", Cp(10))>>)
                        ELSE IF k = "B" THEN Reply(<<Info("g8f6", Cp(60))>>)
                        ELSE OnlyLine(k)],
          single |-> [k \in Keys |-> Reply(<<[pv |-> <<>>, score |-> Some(Cp(60))]>>)],
          raises |-> FALSE]

\* As Sharp, and at D it prefers the move not played as well.
Harsh == [Sharp EXCEPT !.multi["D"] = Reply(<<Info("c2c4", Cp(60))>>)]

\* A session in which a command raises something other than an EngineError.
Broken == [Calm EXCEPT !.raises = TRUE]

HostOracles == {Calm, Sharp, Harsh, Broken}

\* clean_and_merge_pgns: each game cut to the opening horizon, at most
\* MAX_GAMES_PER_UPLOAD games.
clean_and_merge_pgns(games) ==
    LET n == Min(Len(games), MAX_GAMES_PER_UPLOAD) IN
    [i \in 1..n |-> SubSeq(games[i], 1, Min(Len(games[i]), OPENING_PLIES_LIMIT))]

(***************************************************************************)
(* The job host (app.py).  Each request handler is one step.               *)
(***************************************************************************)
Host == [pgn_file |-> pgn_file, analysis_file |-> analysis_file,
         flag_file |-> flag_file, error_file |-> error_file,
         engine_status |-> engine_status, runs |-> runs, nStarted |-> nStarted,
         sessionLog |-> sessionLog]

SetHost(h) ==
    /\ pgn_file' = h.pgn_file
    /\ analysis_file' = h.analysis_file
    /\ flag_file' = h.flag_file
    /\ error_file' = h.error_file
    /\ engine_status' = h.engine_status
    /\ runs' = h.runs
    /\ nStarted' = h.nStarted
    /\ sessionLog' = h.sessionLog

Init ==
    /\ RunIdle /\ BestIdle /\ HostIdle /\ StoreIdle

\* upload(), lines 518-530, for one side with valid files.
UploadSide(h, c, files) ==
    [h EXCEPT !.pgn_file[c] = Some(clean_and_merge_pgns(files)),
              !.analysis_file[c] = None,
              !.flag_file[c] = FALSE,
              !.error_file[c] = None]

\* POST /upload with files for the sides in cs (at least one side).
Upload ==
    \E cs \in (SUBSET Colors) \ {{}} :
    \E files \in [cs -> HostUploads] :
       LET h1 == IF "white" \in cs THEN UploadSide(Host, "white", files["white"]) ELSE Host
           h2 == IF "black" \in cs THEN UploadSide(h1, "black", files["black"]) ELSE h1
       IN /\ SetHost(h2)
          /\ UNCHANGED <<runVars, bestVars, storeVars>>

\* POST /clear_pgns: the eight files of the user are removed.
ClearPgns ==
    /\ pgn_file' = [c \in Colors |-> None]
    /\ analysis_file' = [c \in Colors |-> None]
    /\ flag_file' = [c \in Colors |-> FALSE]
    /\ error_file' = [c \in Colors |-> None]
    /\ UNCHANGED <<engine_status, runs, nStarted, sessionLog, runVars, bestVars,
                   storeVars>>

\* chess.engine.SimpleEngine.popen_uci(candidate): a new engine process, a
\* session no earlier call has returned.
popen_uci(log) == Cardinality(log) + 1

\* get_engine_status(): the cached success, or one attempt to start the engine
\* (owner 0: the request handler), quit before the function returns.
GetEngineStatus(h, starts) ==
    IF h.engine_status = "ok" THEN [h |-> h, ok |-> TRUE]
    ELSE IF starts
    THEN [h |-> [h EXCEPT !.engine_status = "ok",
                          !.sessionLog = @ \cup {[owner |-> 0,
                                                   session |-> popen_uci(h.sessionLog),
                                                   state |-> "quit"]}],
          ok |-> TRUE]
    ELSE [h |-> h, ok |-> FALSE]

\* analyze_async(): the thread is created at its first statement.
NewRun(c) == [color |-> c, pc |-> "analyze", wrote |-> {}]

\* start_analysis(color), lines 580-603.
start_analysis(h, c, starts) ==
    LET es == GetEngineStatus(h, starts)
        g == es.h
    IN  IF ~es.ok THEN [h |-> g, ret |-> FALSE]
        ELSE IF g.pgn_file[c] = None THEN [h |-> g, ret |-> FALSE]
        ELSE IF g.flag_file[c] THEN [h |-> g, ret |-> TRUE]
        ELSE [h |-> [g EXCEPT !.flag_file[c] = TRUE,
                              !.error_file[c] = None,
                              !.runs = @ @@ ((g.nStarted + 1) :> NewRun(c)),
                              !.nStarted = @ + 1],
              ret |-> TRUE]

\* POST /train_<color>, lines 606-622.
TrainColor(target) ==
    \E s1 \in BOOLEAN, s2 \in BOOLEAN :
       LET h == IF target = "both"
                THEN LET w == IF Host.pgn_file["white"] # None
                              THEN start_analysis(Host, "white", s1).h ELSE Host
                     IN IF w.pgn_file["black"] # None
                        THEN start_analysis(w, "black", s2).h ELSE w
                ELSE start_analysis(Host, target, s1).h
       IN /\ h.nStarted <= MaxRuns
          /\ SetHost(h)
          /\ UNCHANGED <<runVars, bestVars, storeVars>>

\* The files a side's games file can hold: nothing, or a cleaned upload.
HostFiles == {<<>>} \cup {clean_and_merge_pgns(u) : u \in HostUploads}

\* analyze_pgn(paths, color) of app.py tabulated over what it depends on: the
\* games read, the side, whether the engine starts, and the oracle.
AnalyzeOutcomes ==
    {[games |-> g, color |-> c, avail |-> e,
      result |-> analyze_pgn("app", g, c, e, o)] :
        g \in HostFiles, c \in Colors, e \in BOOLEAN, o \in HostOracles}

\* task(), line 428: analyze_pgn(paths, color) of app.py on the file as it is now.
TaskAnalyze(i) ==
    /\ i \in DOMAIN runs /\ runs[i].pc = "analyze"
    /\ \E r \in AnalyzeOutcomes :
          /\ r.color = runs[i].color
          /\ r.games = (IF pgn_file[r.color] = None THEN <<>> ELSE pgn_file[r.color][1])
          /\ runs' = [runs EXCEPT ![i] =
                        [color |-> r.color, pc |-> "write", wrote |-> {},
                         avail |-> r.avail, result |-> r.result]]
          /\ sessionLog' = IF r.result.engine = "none" THEN sessionLog
                           ELSE sessionLog \cup {[owner |-> i,
                                                   session |-> popen_uci(sessionLog),
                                                   state |-> r.result.engine]}
    /\ UNCHANGED <<pgn_file, analysis_file, flag_file, error_file, engine_status,
                   nStarted, runVars, bestVars, storeVars>>

\* Mutant of TaskWrite: the except branch writes nothing.
TaskWriteDropsError(i) ==
    /\ i \in DOMAIN runs /\ runs[i].pc = "write"
    /\ LET c == runs[i].color
           r == runs[i].result
       IN /\ analysis_file' = IF r.kind = "returned"
                              THEN [analysis_file EXCEPT ![c] = Some(r.mistakes)]
                              ELSE analysis_file
          /\ runs' = [runs EXCEPT ![i].pc = "finally",
                                  ![i].wrote = IF r.kind = "returned" THEN {"results"} ELSE {}]
    /\ UNCHANGED <<pgn_file, flag_file, error_file, engine_status, nStarted,
                   sessionLog, runVars, bestVars, storeVars>>

\* task(), lines 429-431: the one write of the outcome.
TaskWrite(i) ==
    /\ i \in DOMAIN runs /\ runs[i].pc = "write"
    /\ LET c == runs[i].color
           r == runs[i].result
       IN IF r.kind = "returned"
          THEN /\ analysis_file' = [analysis_file EXCEPT ![c] = Some(r.mistakes)]
               /\ UNCHANGED error_file
          ELSE /\ error_file' = [error_file EXCEPT ![c] = Some(r.reason)]
               /\ UNCHANGED analysis_file
    /\ runs' = [runs EXCEPT ![i].pc = "finally",
                            ![i].wrote = @ \cup {IF runs[i].result.kind = "returned"
                                                 THEN "results" ELSE "error"}]
    /\ UNCHANGED <<pgn_file, flag_file, engine_status, nStarted, sessionLog,
                   runVars, bestVars, storeVars>>

\* task(), lines 432-436: the flag is removed and the thread ends.
TaskFinally(i) ==
    /\ i \in DOMAIN runs /\ runs[i].pc = "finally"
    /\ flag_file' = [flag_file EXCEPT ![runs[i].color] = FALSE]
    /\ runs' = [j \in DOMAIN runs \ {i} |-> runs[j]]
    /\ UNCHANGED <<pgn_file, analysis_file, error_file, engine_status, nStarted,
                   sessionLog, runVars, bestVars, storeVars>>

Task(i) == TaskAnalyze(i) \/ TaskWrite(i) \/ TaskFinally(i)

Next ==
    \/ Upload
    \/ ClearPgns
    \/ \E target \in Colors \cup {"both"} : TrainColor(target)
    \/ \E i \in 1..MaxRuns : Task(i)

Spec == Init /\ [][Next]_vars

\* The background threads run: a task that can take a step takes it.
FairSpec == Spec /\ \A i \in 1..MaxRuns : WF_vars(Task(i))

(***************************************************************************)
(* What a stored JSON file can hold.  <<>>: no file; <<list>>: a JSON list *)
(* (what atomic_write_json stores for an analysis); the two-element values *)
(* below: text that json.load rejects, and JSON that is not a list.  An    *)
(* item of a list is a dict (a record) or something else (Scalar).         *)
(***************************************************************************)
Unreadable == <<"unreadable", "text">>
JsonObject == <<"object", "{}">>
IsJsonList(f) == Len(f) = 1
Scalar == [scalar |-> 7]
IsDict(m) == "scalar" \notin DOMAIN m

CorruptedText == "Analysis output is corrupted."
FailedText == "Analysis failed."

\* load_mistakes(color), lines 625-651: (mistakes, processing, error).
load_mistakes(c) ==
    IF analysis_file[c] # None /\ analysis_file[c] = Unreadable
    THEN [mistakes |-> <<>>, processing |-> FALSE, error |-> Some(CorruptedText)]
    ELSE IF analysis_file[c] # None /\ IsJsonList(analysis_file[c])
    THEN [mistakes |-> SelectSeq(analysis_file[c][1],
                                 LAMBDA m : IsDict(m) /\ Get(m, "avg_cp_loss", 0)
                                                          >= MISTAKE_THRESHOLD_CP),
          processing |-> FALSE, error |-> None]
    ELSE IF error_file[c] # None
    THEN [mistakes |-> <<>>, processing |-> FALSE,
          error |-> Some(IF error_file[c] = Unreadable \/ error_file[c][1] = ""
                         THEN FailedText ELSE error_file[c][1])]
    ELSE IF flag_file[c]
    THEN [mistakes |-> <<>>, processing |-> TRUE, error |-> None]
    ELSE [mistakes |-> <<>>, processing |-> FALSE, error |-> None]

(***************************************************************************)
(* SpecStore: read and delete requests on the stored files of one side.    *)
(* The files are what an earlier run, a crash or another program left.     *)
(***************************************************************************)
StoredItems ==
    {[fen |-> <<"S", 0>>, user_move |-> "d2d4", top_moves |-> <<"g1f3">>,
      avg_cp_loss |-> 120, pair_count |-> 2],
     [fen |-> <<"D", 0>>, user_move |-> "g1f3", top_moves |-> <<"c2c4">>,
      avg_cp_loss |-> 110, pair_count |-> 2],
     Scalar}

StoredAnalyses ==
    {None, Unreadable, JsonObject} \cup {Some(l) : l \in SeqsUpTo(StoredItems, MaxStored)}

StoredErrors == {None, Unreadable, Some(""), Some(StockfishError)}

InitStore ==
    /\ RunIdle /\ BestIdle /\ StoreIdle
    /\ pgn_file = [c \in Colors |-> None]
    /\ \E a \in StoredAnalyses :
          analysis_file = [c \in Colors |-> IF c = "white" THEN a ELSE None]
    /\ \E e \in StoredErrors :
          error_file = [c \in Colors |-> IF c = "white" THEN e ELSE None]
    /\ \E f \in BOOLEAN :
          flag_file = [c \in Colors |-> c = "white" /\ f]
    /\ engine_status = "unset" /\ runs = EmptyFun /\ nStarted = 0
    /\ sessionLog = {}

\* GET /analysis_<color>, lines 671-678: the read of a side's status.
AnalysisColor(c) ==
    /\ response' = Some([req |-> "load", color |-> c, out |-> load_mistakes(c)])
    /\ UNCHANGED <<requests, runVars, bestVars, hostVars>>

\* list.pop(index)
Pop(l, index) == SubSeq(l, 1, index) \o SubSeq(l, index + 2, Len(l))

\* Line 695: 0 <= index < len(mistakes).
InBounds(index, n) == 0 <= index /\ index < n

\* delete_mistake(color, index), lines 681-698: the new content of the
\* analysis file and the HTTP status.
delete_mistake(file, index) ==
    IF file = None THEN [file |-> file, status |-> 404]
    ELSE IF file = Unreadable THEN [file |-> file, status |-> 500]
    ELSE LET stored == IF IsJsonList(file) THEN file[1] ELSE <<>> IN
         IF InBounds(index, Len(stored))
         THEN [file |-> Some(Pop(stored, index)), status |-> 204]
         ELSE [file |-> file, status |-> 204]

\* POST /delete_mistake/<color>/<int:index>.
DeleteMistake(c, index) ==
    LET r == delete_mistake(analysis_file[c], index) IN
    /\ analysis_file' = [analysis_file EXCEPT ![c] = r.file]
    /\ response' = Some([req |-> "delete", color |-> c, index |-> index,
                         before |-> analysis_file[c], status |-> r.status])
    /\ UNCHANGED <<pgn_file, flag_file, error_file, engine_status, runs, nStarted,
                   sessionLog, requests, runVars, bestVars>>

NextStore ==
    \/ \E c \in Colors : AnalysisColor(c)
    \/ \E c \in Colors, index \in 0..MaxStored : DeleteMistake(c, index)

SpecStore == InitStore /\ [][NextStore]_vars

(***************************************************************************)
(* SpecRace: White's games are uploaded; runs are started for White and    *)
(* delete requests for White's collection are served by threads of their   *)
(* own, so that between a request's read of the file (line 690) and its    *)
(* write (line 697) other threads take steps.                              *)
(***************************************************************************)
InitRace ==
    /\ RunIdle /\ BestIdle /\ StoreIdle
    /\ pgn_file = [c \in Colors |->
                     IF c = "white"
                     THEN Some(clean_and_merge_pgns(<<HostGame, HostGame>>)) ELSE None]
    /\ analysis_file = [c \in Colors |-> None]
    /\ flag_file = [c \in Colors |-> FALSE]
    /\ error_file = [c \in Colors |-> None]
    /\ engine_status = "unset" /\ runs = EmptyFun /\ nStarted = 0
    /\ sessionLog = {}

\* delete_mistake, lines 686-694: the file is looked up and read.
DeleteRead(c, index) ==
    /\ Cardinality(DOMAIN requests) < MaxDeletes
    /\ LET d == Cardinality(DOMAIN requests) + 1
           file == analysis_file[c]
       IN requests' = requests @@
             (d :> IF file = None
                   THEN [color |-> c, index |-> index, pc |-> "done",
                         read |-> file, status |-> 404]
                   ELSE IF file = Unreadable
                   THEN [color |-> c, index |-> index, pc |-> "done",
                         read |-> file, status |-> 500]
                   ELSE [color |-> c, index |-> index, pc |-> "read",
                         read |-> file, status |-> 0])
    /\ UNCHANGED <<response, runVars, bestVars, hostVars>>

\* delete_mistake, lines 695-698: the record is popped from what was read and
\* the list is written over the file (atomic_write_json, lines 70-75).
DeleteWrite(d) ==
    /\ d \in DOMAIN requests /\ requests[d].pc = "read"
    /\ LET r == delete_mistake(requests[d].read, requests[d].index) IN
       /\ analysis_file' = IF r.file # requests[d].read
                            THEN [analysis_file EXCEPT ![requests[d].color] = r.file]
                            ELSE analysis_file
       /\ requests' = [requests EXCEPT ![d].pc = "done", ![d].status = r.status]
    /\ UNCHANGED <<pgn_file, flag_file, error_file, engine_status, runs, nStarted,
                   sessionLog, response, runVars, bestVars>>

NextRace ==
    \/ TrainColor("white")
    \/ \E i \in 1..MaxRuns : Task(i)
    \/ \E index \in 0..1 : DeleteRead("white", index)
    \/ \E d \in 1..MaxDeletes : DeleteWrite(d)

SpecRace == InitRace /\ [][NextRace]_vars

(***************************************************************************)
(* SpecBest: the entry of position_cache computed from one multi-line      *)
(* reply, for a position with White to move (S) and one with Black (A).    *)
(***************************************************************************)
BestScores == RelScores \cup {Mate(1), Mate(-1)}
BestKeys == {"S", "A"}
BestReplies(k) ==
    {Failed, Reply(<<NoScoreInfo(CHOOSE m \in LegalMoves(k) : TRUE)>>)}
      \cup {Reply(l) : l \in LinesOver(LegalMoves(k), BestScores)}

InitBest ==
    /\ RunIdle /\ HostIdle /\ StoreIdle
    /\ \E k \in BestKeys : \E r \in BestReplies(k) : bl_in = Some([key |-> k, reply |-> r])
    /\ bl_out = None

BestApply ==
    /\ bl_out = None
    /\ bl_out' = Some(BestLineFor(bl_in[1].reply, Turn(bl_in[1].key)))
    /\ UNCHANGED <<bl_in, runVars, storeVars, hostVars>>

NextBest == BestApply

SpecBest == InitBest /\ [][NextBest]_vars

(***************************************************************************)
(* SpecPairs: collect_move_pairs(paths, color) alone.  corpus keeps the    *)
(* games of the files, pairs receives what the function returns.           *)
(***************************************************************************)
InitPairs ==
    /\ corpus \in Corpora
    /\ color \in Colors
    /\ pc = "collect"
    /\ pairs = <<>> /\ candidates = <<>> /\ idx = 1
    /\ position_cache = EmptyFun /\ after_cache = EmptyFun
    /\ mistakes = <<>> /\ engine = "none" /\ queries = <<>> /\ lossLog = {}
    /\ oracle = None
    /\ BestIdle /\ HostIdle /\ StoreIdle

CollectPairs ==
    /\ pc = "collect"
    /\ pairs' = collect_move_pairs(corpus, color)
    /\ pc' = "collected"
    /\ UNCHANGED <<corpus, color, candidates, idx, position_cache, after_cache,
                   mistakes, engine, oracle, queries, lossLog, bestVars, storeVars,
                   hostVars>>

NextPairs == CollectPairs

SpecPairs == InitPairs /\ [][NextPairs]_vars

(***************************************************************************)
(* SpecStats: compute_analysis_stats(mistakes) alone.  The records have    *)
(* severities 101, 102 and 104 (their means and medians fall on, below and *)
(* above a half), a count of 2 or 3, and the tag of either side or, as the *)
(* records of app.py, none.                                                *)
(***************************************************************************)
StatRecords ==
    {MistakeRecord(impl, <<"S", 0>>, "d2d4", <<"g1f3">>, sev,
                   IF sev = 101 THEN 2 ELSE 3, c) :
        impl \in {"utils", "app"}, sev \in {101, 102, 104}, c \in Colors}

InitStats ==
    /\ RunIdle /\ BestIdle /\ HostIdle /\ StoreIdle

\* A collection is handed to the function.
StatsCall ==
    /\ pc = "idle"
    /\ mistakes' \in SeqsUpTo(StatRecords, MaxStats)
    /\ pc' = "stats"
    /\ UNCHANGED <<corpus, color, pairs, candidates, idx, position_cache,
                   after_cache, engine, oracle, queries, lossLog, bestVars,
                   storeVars, hostVars>>

\* Lines 231-265: the function returns.
StatsReturn ==
    /\ pc = "stats"
    /\ response' = Some([req |-> "stats", out |-> compute_analysis_stats(mistakes)])
    /\ pc' = "returned"
    /\ UNCHANGED <<corpus, color, pairs, candidates, idx, position_cache,
                   after_cache, mistakes, engine, oracle, queries, lossLog,
                   requests, bestVars, hostVars>>

NextStats == StatsCall \/ StatsReturn

SpecStats == InitStats /\ [][NextStats]_vars

(***************************************************************************)
(*                              The claims                                 *)
(***************************************************************************)
RunsOf(c) == {i \in DOMAIN runs : runs[i].color = c}
Persisted(i) == i \in DOMAIN runs /\ runs[i].pc = "finally"
\* The step in which task i writes its outcome.
WriteStep(i) ==
    /\ i \in DOMAIN runs /\ runs[i].pc = "write"
    /\ i \in DOMAIN runs' /\ runs'[i].pc = "finally"

\* C1 as stated: whenever Stockfish cannot be started during a run, whatever
\* the corpus, the outcome of the run is a failure with a non-empty reason.
C1_OracleDownAlwaysFails ==
    \A i \in DOMAIN runs :
       (runs[i].pc \in {"write", "finally"} /\ ~runs[i].avail)
          => (runs[i].result.kind = "raised" /\ runs[i].result.reason # "")

\* C1 amended: when Stockfish cannot be started and the corpus yields at
\* least one candidate, the outcome is a failure with a non-empty reason,
\* the task writes that reason to the side's error file and leaves the
\* analysis files alone; with no candidate the call returns [] and the
\* engine is never started.
C1_OracleDownFailsWithCandidates ==
    /\ [](\A i \in DOMAIN runs :
            runs[i].pc \in {"write", "finally"} =>
               /\ (~runs[i].avail /\ runs[i].result.ncand > 0)
                     => (runs[i].result.kind = "raised" /\ runs[i].result.reason # "")
               /\ runs[i].result.ncand = 0
                     => (/\ runs[i].result.kind = "returned"
                         /\ runs[i].result.mistakes = <<>>
                         /\ runs[i].result.engine = "none"))
    /\ [][\A i \in DOMAIN runs :
            (WriteStep(i) /\ ~runs[i].avail /\ runs[i].result.ncand > 0)
               => /\ error_file'[runs[i].color] = Some(runs[i].result.reason)
                  /\ runs[i].result.reason # ""
                  /\ analysis_file' = analysis_file]_vars

\* C1 witness: a task that found Stockfish missing on a corpus with
\* candidates has written its reason; no results are stored for the side.
C1_Witness ==
    \E i \in DOMAIN runs :
       /\ Persisted(i) /\ ~runs[i].avail /\ runs[i].result.ncand > 0
       /\ error_file[runs[i].color] = Some(StockfishError)
       /\ analysis_file[runs[i].color] = None

\* C2: at most one analysis run per side is in progress at any time.
C2_OneRunPerSide == \A c \in Colors : Cardinality(RunsOf(c)) <= 1

\* C3: while a run for a side is in progress, load_mistakes reports
\* processing for that side.  Stated for a side with a single run that has
\* not yet written its outcome and whose flag is in place, which leaves the
\* runs doubled by C2's race aside.
C3_ProcessingReported ==
    \A c \in Colors :
       (/\ Cardinality(RunsOf(c)) = 1
        /\ \A i \in RunsOf(c) : runs[i].pc # "finally"
        /\ flag_file[c])
          => load_mistakes(c).processing

\* C4: right after a run has written its failure, load_mistakes reports the
\* captured reason for that side (and so differs from an empty success).
\* Stated for a run that is the only one of its side.
C4_FailureReported ==
    [][\A i \in DOMAIN runs :
          (WriteStep(i) /\ runs[i].result.kind = "raised" /\ RunsOf(runs[i].color) = {i})
             => LET c == runs[i].color
                    read == IF analysis_file'[c] # None THEN None
                            ELSE IF error_file'[c] # None THEN error_file'[c]
                            ELSE None
                IN read = Some(runs[i].result.reason)]_vars

\* C5: every started task ends and every processing flag set is cleared
\* again; the step in which a task ends is its removal of the flag, taken
\* after it has written exactly one of results and error.
C5_RunTerminates ==
    /\ \A i \in 1..MaxRuns : (i \in DOMAIN runs) ~> (i \notin DOMAIN runs)
    /\ \A c \in Colors : flag_file[c] ~> ~flag_file[c]
    /\ [][\A i \in DOMAIN runs :
            i \notin DOMAIN runs'
               => /\ runs[i].pc = "finally"
                  /\ ~flag_file'[runs[i].color]
                  /\ Cardinality(runs[i].wrote) = 1
                  /\ runs[i].wrote = {IF runs[i].result.kind = "returned"
                                      THEN "results" ELSE "error"}]_vars

\* C5 witness: every started task has ended, no flag is left, and an
\* outcome is stored.
C5_Witness ==
    /\ nStarted > 0 /\ runs = EmptyFun
    /\ \A c \in Colors : ~flag_file[c]
    /\ \E c \in Colors : analysis_file[c] # None \/ error_file[c] # None

\* The position reached by a pair's move, and the mistakes reported for it.
AfterKeyOf(k, m) == Edge(k, m).to
Reported(k, m) ==
    \E j \in 1..Len(mistakes) : mistakes[j].fen[1] = k /\ mistakes[j].user_move = m

\* C6: every loss computed is best - after for a White mover and
\* after - best for a Black mover (both scores from White's side), and is
\* the severity stored for the pair.
C6_LossFromMoverSide ==
    \A e \in lossLog :
       LET best == position_cache[e.key].best[1]
           after == after_cache[AfterKeyOf(e.key, e.move)][1]
       IN /\ e.loss = IF e.key \in WhiteKeys THEN best - after ELSE after - best
          /\ \A j \in 1..Len(mistakes) :
                (mistakes[j].fen[1] = e.key /\ mistakes[j].user_move = e.move)
                   => mistakes[j].avg_cp_loss = e.loss

\* C6 witness: the mirrored example, Black to move, best -50, after +10: 60.
C6_Witness ==
    \E e \in lossLog :
       /\ e.key \notin WhiteKeys
       /\ position_cache[e.key].best = Some(-50)
       /\ after_cache[AfterKeyOf(e.key, e.move)] = Some(10)
       /\ e.loss = 60

\* C7: a computed loss is reported exactly when it is strictly greater than
\* the threshold; every reported severity is above the threshold.
C7_ThresholdExclusive ==
    /\ \A j \in 1..Len(mistakes) : mistakes[j].avg_cp_loss > MISTAKE_THRESHOLD_CP
    /\ \A e \in lossLog : (e.loss > MISTAKE_THRESHOLD_CP) <=> Reported(e.key, e.move)

\* C7 witness: a finished run that computed a loss equal to the threshold
\* and did not report it.
C7_Witness ==
    /\ pc = "done"
    /\ \E e \in lossLog : e.loss = MISTAKE_THRESHOLD_CP /\ ~Reported(e.key, e.move)

\* The score a line has for the side to move, in centipawns.
MoverCp(score) == ScoreValue(score)

\* C8: the first move of a returned line is an acceptable move exactly when
\* the line is at most the tolerance worse for the mover than the best line.
C8_AcceptableWithinTolerance ==
    (bl_out # None /\ bl_in[1].reply.ok /\ bl_out[1].best # None) =>
       LET infos == bl_in[1].reply.infos IN
       \A j \in 1..Len(infos) :
          infos[j].score # None =>
             (InSeq(infos[j].pv[1], bl_out[1].top)
                <=> MoverCp(infos[1].score[1]) - MoverCp(infos[j].score[1])
                       <= TOP_MOVE_THRESHOLD_CP)

\* C9: a candidate whose move is among the top moves of its position adds
\* no mistake and causes no single-line query; no reported move is one of
\* the top moves stored with it.
C9_AcceptableExempt ==
    /\ [](\A j \in 1..Len(mistakes) :
             ~InSeq(mistakes[j].user_move, mistakes[j].top_moves))
    /\ [][(pc = "loop" /\ idx' = idx + 1
             /\ InSeq(candidates[idx].move, position_cache'[candidates[idx].key].top))
            => /\ mistakes' = mistakes
               /\ after_cache' = after_cache
               /\ \A j \in (Len(queries) + 1)..Len(queries') :
                     queries'[j].kind = "multi"]_vars

\* C9 witness: a processed candidate whose move is a top move of its
\* position: not reported, and no single-line query was issued for it.
C9_Witness ==
    \E j \in 1..Len(candidates) :
       /\ j < idx
       /\ InSeq(candidates[j].move, position_cache[candidates[j].key].top)
       /\ ~Reported(candidates[j].key, candidates[j].move)
       /\ \A q \in 1..Len(queries) :
             queries[q].pair = <<candidates[j].key, candidates[j].move>>
                => queries[q].kind = "multi"

\* C10: a pair seen fewer than MIN_PAIR_OCCURRENCES times causes no oracle
\* query and is in no mistake record.
C10_MinOccurrenceGate ==
    \A p \in 1..Len(pairs) :
       pairs[p].count < MIN_PAIR_OCCURRENCES
          => /\ \A q \in 1..Len(queries) :
                   queries[q].pair # <<pairs[p].key, pairs[p].move>>
             /\ ~Reported(pairs[p].key, pairs[p].move)

\* C10 witness: a finished run with a pair below the minimum beside
\* candidates that were evaluated.
C10_Witness ==
    /\ pc = "done" /\ queries # <<>>
    /\ \E p \in 1..Len(pairs) : pairs[p].count < MIN_PAIR_OCCURRENCES

\* The queries of one kind issued for a position key, and the keys of the
\* candidates the loop has gone through.
QueriesOf(kind, k) ==
    {q \in 1..Len(queries) : queries[q].kind = kind /\ queries[q].key = k}
KeysSeen == {candidates[j].key : j \in 1..(idx - 1)}

\* C11: the multi-line queries issued are as many as the distinct position
\* keys of the candidates gone through (all of them when the run is done),
\* no key has two multi-line queries nor two single-line queries, and an
\* entry of either cache, unknown entries included, is never changed.
C11_OneQueryPerKey ==
    /\ [](/\ Cardinality({q \in 1..Len(queries) : queries[q].kind = "multi"})
               = Cardinality(KeysSeen)
          /\ DOMAIN position_cache = KeysSeen
          /\ \A k \in Keys : /\ Cardinality(QueriesOf("multi", k)) <= 1
                              /\ Cardinality(QueriesOf("single", k)) <= 1
                              /\ k \in DOMAIN after_cache
                                    <=> QueriesOf("single", k) # {})
    /\ [][/\ \A k \in DOMAIN position_cache :
                k \in DOMAIN position_cache' /\ position_cache'[k] = position_cache[k]
          /\ \A k \in DOMAIN after_cache :
                k \in DOMAIN after_cache' /\ after_cache'[k] = after_cache[k]]_vars

\* C11 witness: a finished run in which two candidates share their position
\* (one of them cached as unknown) and two others the position after their
\* move, with one query for each shared key.
C11_Witness ==
    /\ pc = "done" /\ engine = "quit"
    /\ \E i, j \in 1..Len(candidates) :
          /\ i < j /\ candidates[i].key = candidates[j].key
          /\ position_cache[candidates[i].key].best = None
          /\ Cardinality(QueriesOf("multi", candidates[i].key)) = 1
    /\ \E i, j \in 1..Len(candidates) :
          /\ i < j /\ candidates[i].key # candidates[j].key
          /\ AfterKey(candidates[i]) = AfterKey(candidates[j])
          /\ Reported(candidates[i].key, candidates[i].move)
          /\ Reported(candidates[j].key, candidates[j].move)
          /\ Cardinality(QueriesOf("single", AfterKey(candidates[i]))) = 1

\* The stored collection of a side is unreadable or is not a list of records.
Malformed(c) ==
    \/ analysis_file[c] \in {Unreadable, JsonObject}
    \/ /\ analysis_file[c] # None /\ IsJsonList(analysis_file[c])
       /\ \E j \in 1..Len(analysis_file[c][1]) : ~IsDict(analysis_file[c][1][j])
NothingStored(c) == analysis_file[c] = None /\ error_file[c] = None /\ ~flag_file[c]
FailureRecorded(c) == analysis_file[c] = None /\ error_file[c] # None
NoResultsYet == [mistakes |-> <<>>, processing |-> FALSE, error |-> None]

\* C12: a read reports 'results corrupted' whenever the stored collection is
\* unreadable or malformed, 'no results yet' when nothing is stored and
\* 'analysis failed' when a failure was recorded; the three differ.
C12_ThreeReadOutcomes ==
    (response # None /\ response[1].req = "load") =>
       LET c == response[1].color
           out == response[1].out
       IN /\ Malformed(c) => out.error = Some(CorruptedText)
          /\ NothingStored(c) => out = NoResultsYet
          /\ FailureRecorded(c) => (out.error # None /\ out.error # Some(CorruptedText))

\* C13: a delete request whose index is outside the bounds of the stored
\* collection leaves the collection unchanged and is answered with a status
\* other than the one of a successful delete (204).
C13_InvalidIndexRejected ==
    (/\ response # None /\ response[1].req = "delete"
     /\ response[1].before # None /\ IsJsonList(response[1].before)
     /\ response[1].index >= Len(response[1].before[1]))
       => /\ analysis_file[response[1].color] = response[1].before
          /\ response[1].status # 204

\* The sort key of a record, and the order of two keys.
RankKey(m) == <<m.pair_count, m.avg_cp_loss>>
Occurrences(ms, r) == Cardinality({i \in 1..Len(ms) : ms[i] = r})
IndexIn(ms, r) == CHOOSE i \in 1..Len(ms) : ms[i] = r
\* The step at which the call sorts what the loop has emitted and returns.
RankStep == pc = "loop" /\ pc' = "done"

\* C14: the output is ordered by count descending, then severity
\* descending; it is a permutation of the emitted records, and records equal
\* in both keys keep the order in which they were emitted.
C14_RankedOutput ==
    /\ [](pc = "done" =>
            \A i, j \in 1..Len(mistakes) :
               i < j => ~KeyLess(RankKey(mistakes[i]), RankKey(mistakes[j])))
    /\ [][RankStep =>
            /\ Len(mistakes') = Len(mistakes)
            /\ \A i \in 1..Len(mistakes) :
                  Occurrences(mistakes', mistakes[i]) = Occurrences(mistakes, mistakes[i])
            /\ \A i, j \in 1..Len(mistakes) :
                  (i < j /\ RankKey(mistakes[i]) = RankKey(mistakes[j]))
                     => IndexIn(mistakes', mistakes[i]) < IndexIn(mistakes', mistakes[j])]_vars

\* The candidate a record was emitted for: records are emitted in the order
\* of the candidates.
EmittedAt(m) ==
    CHOOSE j \in 1..Len(candidates) :
       candidates[j].key = m.fen[1] /\ candidates[j].move = m.user_move

\* C14 witness: a returned output in which a record emitted later stands
\* before one of the same count (it is more severe), and two records equal
\* in both keys stand in the order of their emission.
C14_Witness ==
    /\ pc = "done"
    /\ \E i, j \in 1..Len(mistakes) :
          /\ i < j /\ mistakes[i].pair_count = mistakes[j].pair_count
          /\ mistakes[i].avg_cp_loss > mistakes[j].avg_cp_loss
          /\ EmittedAt(mistakes[i]) > EmittedAt(mistakes[j])
    /\ \E i, j \in 1..Len(mistakes) :
          /\ i < j /\ RankKey(mistakes[i]) = RankKey(mistakes[j])
          /\ EmittedAt(mistakes[i]) < EmittedAt(mistakes[j])

\* C15: ranking a returned (already ranked) collection gives the same
\* order; the statistics of the collection are the same before and after
\* ranking, and ranking leaves each record as it was.
C15_RankIdempotent ==
    /\ [](pc = "done" => RankMistakes(mistakes) = mistakes)
    /\ [][RankStep =>
            /\ compute_analysis_stats(mistakes') = compute_analysis_stats(mistakes)
            /\ {mistakes'[i] : i \in 1..Len(mistakes')}
                  = {mistakes[i] : i \in 1..Len(mistakes)}
            /\ RankMistakes(mistakes') = mistakes']_vars

\* C15 witness: a returned collection of three records, two of them equal
\* in count and severity, that ranking leaves as it is; severities 120, 110
\* and 110 give the average 113 and the median 110.
C15_Witness ==
    /\ pc = "done" /\ Len(mistakes) = 3
    /\ RankKey(mistakes[2]) = RankKey(mistakes[3])
    /\ RankMistakes(mistakes) = mistakes
    /\ compute_analysis_stats(mistakes).avg_cp = 113
    /\ compute_analysis_stats(mistakes).median_cp = 110
    /\ compute_analysis_stats(mistakes).total_frequency = 6

\* The fields of a MistakeRecord.
RecordFields == {"fen", "user_move", "top_moves", "avg_cp_loss", "pair_count", "color"}

\* C16: every record a run of the application returns has the six fields
\* of a MistakeRecord, the side tag being the side of the run, with an
\* integer severity and frequency.
C16_RecordsCarrySide ==
    \A i \in DOMAIN runs :
       (runs[i].pc \in {"write", "finally"} /\ runs[i].result.kind = "returned") =>
          \A j \in 1..Len(runs[i].result.mistakes) :
             LET m == runs[i].result.mistakes[j] IN
             /\ DOMAIN m = RecordFields
             /\ m.color = runs[i].color
             /\ m.avg_cp_loss \in Int /\ m.pair_count \in Nat


(***************************************************************************)
(* C17.  Every run that opened an engine session has quit it when its     *)
(* outcome is written (results or error): on the success path and when an *)
(* exception leaves the try block after the session was opened; a run     *)
(* that opened none has no session; and no session was ever opened by two *)
(* different owners.                                                       *)
(***************************************************************************)
SessionsOf(i) == {e \in sessionLog : e.owner = i}

\* The call of analyze_pgn has returned or raised; at "finally" the outcome
\* (results or error) is written.
Ended(i) == runs[i].pc \in {"write", "finally"}

C17_SessionReleased ==
    /\ \A i \in DOMAIN runs :
          Ended(i) =>
             /\ runs[i].result.engine \in {"none", "quit"}
             /\ (runs[i].result.engine = "none") <=> (SessionsOf(i) = {})
             /\ \A e \in SessionsOf(i) : e.state = "quit"
             /\ Cardinality(SessionsOf(i)) <= 1
    /\ \A e \in sessionLog : e.owner \notin DOMAIN runs => e.state = "quit"
    /\ \A e1, e2 \in sessionLog : e1.session = e2.session => e1.owner = e2.owner

\* A run failed after its session was opened and quit it, and another run
\* completed with a session of its own.
C17_Witness ==
    \E i, j \in DOMAIN runs :
       /\ i # j
       /\ runs[i].pc = "finally" /\ runs[j].pc = "finally"
       /\ runs[i].wrote = {"error"} /\ runs[j].wrote = {"results"}
       /\ runs[i].result.kind = "raised" /\ runs[i].result.reason = UnexpectedError
       /\ runs[j].result.kind = "returned" /\ runs[j].result.engine = "quit"
       /\ \E e1 \in SessionsOf(i), e2 \in SessionsOf(j) :
             e1.state = "quit" /\ e2.state = "quit" /\ e1.session # e2.session


(***************************************************************************)
(* C18.  When one request of the run fails, the key asked about is cached *)
(* as unknown and asked about once; no record comes from a candidate at   *)
(* that position (multi-line failure) or moving into it (single-line      *)
(* failure); the step of the failure moves on to the next candidate, and  *)
(* a run whose engine started goes through every candidate and returns.   *)
(***************************************************************************)
FailedKeys(kind) ==
    {k \in Keys : /\ QueriesOf(kind, k) # {}
                  /\ ~(IF kind = "multi" THEN oracle[1].multi[k]
                                          ELSE oracle[1].single[k]).ok}

RecordKey(m) == position_key(BoardOf(m.fen))
RecordAfterKey(m) == position_key(Push(BoardOf(m.fen), m.user_move))
Records == {mistakes[j] : j \in 1..Len(mistakes)}

FailureStep(kind) ==
    /\ Len(queries') > Len(queries)
    /\ \E q \in (Len(queries) + 1)..Len(queries') :
          queries'[q].kind = kind /\ queries'[q].key \in FailedKeys(kind)'

C18_FailedRequestSkipped ==
    /\ [](/\ \A k \in FailedKeys("multi") :
                /\ position_cache[k] = [best |-> None, top |-> <<>>]
                /\ Cardinality(QueriesOf("multi", k)) = 1
                /\ \A m \in Records : RecordKey(m) # k
          /\ \A k \in FailedKeys("single") :
                /\ after_cache[k] = None
                /\ Cardinality(QueriesOf("single", k)) = 1
                /\ \A m \in Records : RecordAfterKey(m) # k
          /\ (engine # "none" => pc \in {"loop", "done"})
          /\ (pc = "done" /\ candidates # <<>>
                 => idx = Len(candidates) + 1 /\ engine = "quit"))
    /\ [][FailureStep("multi") \/ FailureStep("single")
            => /\ pc' = "loop" /\ idx' = idx + 1
               /\ mistakes' = mistakes
               /\ candidates' = candidates]_vars

\* C18 witness: a returned run in which the multi-line request at C and the
\* single-line request at T (the position after the candidate at D) failed,
\* and a candidate processed after the first failure gave a record.
C18_Witness ==
    /\ pc = "done"
    /\ "C" \in FailedKeys("multi") /\ "T" \in FailedKeys("single")
    /\ \E j \in 1..Len(candidates) : AfterKey(candidates[j]) = "T"
                                      /\ candidates[j].key # "C"
    /\ \E m \in Records :
          \E j \in 1..Len(candidates) :
             /\ candidates[j].key = RecordKey(m) /\ candidates[j].move = m.user_move
             /\ \E i \in 1..(j - 1) : candidates[i].key = "C"


(***************************************************************************)
(* C19.  The candidates of the run taken in another order, against the    *)
(* same oracle.                                                            *)
(***************************************************************************)
Orders(n) == {f \in [1..n -> 1..n] : \A i, j \in 1..n : i # j => f[i] # f[j]}
Reordered(f) == [i \in 1..Len(candidates) |-> candidates[f[i]]]
OutputOf(cands) ==
    RankMistakes(AnalyzeFrom("utils", cands, 1, color, oracle[1], Locals0).mistakes)

\* C19 as stated: whatever the order in which the candidates are processed,
\* the output is the same records in the same final order.
C19_AnyOrderSameOutput ==
    pc = "done" =>
       \A f \in Orders(Len(candidates)) : OutputOf(Reordered(f)) = mistakes

\* C19, amended: whatever the order in which the candidates are processed,
\* the output holds the same records, and the same count and severity at
\* every place; only records equal in both count and severity can change
\* places (they stand in the order of their processing).
C19_AnyOrderSameRanking ==
    pc = "done" =>
       \A f \in Orders(Len(candidates)) :
          LET out == OutputOf(Reordered(f)) IN
          /\ Len(out) = Len(mistakes)
          /\ {out[i] : i \in 1..Len(out)} = Records
          /\ \A i \in 1..Len(out) : RankKey(out[i]) = RankKey(mistakes[i])

\* C19 witness: a returned output with records of different severity, two of
\* them equal in count and severity, and an order of processing that gives
\* another output.
C19_Witness ==
    /\ pc = "done"
    /\ \E i, j \in 1..Len(mistakes) : RankKey(mistakes[i]) # RankKey(mistakes[j])
    /\ \E i, j \in 1..Len(mistakes) :
          i # j /\ RankKey(mistakes[i]) = RankKey(mistakes[j])
    /\ \E f \in Orders(Len(candidates)) : OutputOf(Reordered(f)) # mistakes


(***************************************************************************)
(* C20.  The occurrences of a pair in a corpus: the (game, ply) at which  *)
(* the side was to move, below the opening-ply limit.                      *)
(***************************************************************************)
BoardAt(g, ply) == BoardAfter(SubSeq(g, 1, ply))

Plies(games) == {<<gi, ply>> \in (1..Len(games)) \X (0..(MaxPlies - 1)) :
                    ply < Len(games[gi])}

OccurrencesOf(games, c, k, m) ==
    {o \in Plies(games) :
        /\ o[2] < OPENING_PLIES_LIMIT
        /\ Turn(BoardAt(games[o[1]], o[2]).key) = TargetTurn(c)
        /\ position_key(BoardAt(games[o[1]], o[2])) = k
        /\ games[o[1]][o[2] + 1] = m}

Earlier(o1, o2) == o1[1] < o2[1] \/ (o1[1] = o2[1] /\ o1[2] <= o2[2])

FirstOccurrence(games, c, k, m) ==
    CHOOSE o \in OccurrencesOf(games, c, k, m) :
       \A o2 \in OccurrencesOf(games, c, k, m) : Earlier(o, o2)

\* C20: after pair extraction every pair played by the side below the limit
\* is listed once; its count is the number of its occurrences (plies of the
\* other side and plies at or beyond the limit are no occurrences), and its
\* stored position is that of its first occurrence.
C20_PairCounts ==
    pc = "collected" =>
       /\ \A i \in 1..Len(pairs) :
             LET occ == OccurrencesOf(corpus, color, pairs[i].key, pairs[i].move)
                 first == FirstOccurrence(corpus, color, pairs[i].key, pairs[i].move)
             IN /\ pairs[i].count = Cardinality(occ)
                /\ pairs[i].count >= 1
                /\ pairs[i].fen = Fen(BoardAt(corpus[first[1]], first[2]))
       /\ \A i, j \in 1..Len(pairs) :
             (pairs[i].key = pairs[j].key /\ pairs[i].move = pairs[j].move) => i = j
       /\ \A k \in Keys : \A m \in PlayedMoves(k) :
             OccurrencesOf(corpus, color, k, m) # {} => HasPair(pairs, k, m)

\* C20 witness: two games reach T by different move orders and Black plays
\* e7e6 in both: the pair is counted twice and keeps the position of the
\* first game, whose clock differs from the second game's; the five-ply
\* game has a ply at the limit, and White's plies are counted for no pair.
C20_Witness ==
    /\ pc = "collected" /\ color = "black"
    /\ Len(corpus) = 2 /\ Len(corpus[1]) = 5 /\ Len(corpus[2]) = 4
    /\ \E i \in 1..Len(pairs) :
          /\ pairs[i].key = "T" /\ pairs[i].move = "e7e6" /\ pairs[i].count = 2
          /\ pairs[i].fen = Fen(BoardAt(corpus[1], 3))
          /\ pairs[i].fen # Fen(BoardAt(corpus[2], 3))
    /\ \A i \in 1..Len(pairs) : Turn(pairs[i].key) = "b"


(***************************************************************************)
(* C21.  The statistics of a collection, stated without the sort and the  *)
(* division of the function: sums over the places of the collection, the  *)
(* k-th smallest severity by counting, and "rounded" as an integer at most *)
(* a half away from the exact value.                                       *)
(***************************************************************************)
RECURSIVE SumOver(_, _)
SumOver(xs, I) ==
    IF I = {} THEN 0
    ELSE LET i == CHOOSE j \in I : TRUE IN xs[i] + SumOver(xs, I \ {i})

Severities(ms) == [i \in 1..Len(ms) |-> ms[i].avg_cp_loss]

\* The k-th smallest value of xs, k in 1..Len(xs).
KthSmallest(xs, k) ==
    CHOOSE v \in {xs[i] : i \in 1..Len(xs)} :
       /\ Cardinality({i \in 1..Len(xs) : xs[i] < v}) < k
       /\ Cardinality({i \in 1..Len(xs) : xs[i] <= v}) >= k

\* v is an integer nearest to num / den (den > 0).
IsRounded(v, num, den) ==
    /\ 2 * den * v - 2 * num <= den
    /\ 2 * num - 2 * den * v <= den

Tagged(ms, c) == {i \in 1..Len(ms) : "color" \in DOMAIN ms[i] /\ ms[i].color = c}

\* C21: for a non-empty collection total is the number of records,
\* total_frequency the sum of the counts, max_cp the largest severity, avg_cp
\* the mean of the severities rounded, median_cp the middle severity (odd
\* length) or the rounded mean of the two middle ones (even length), and
\* white_count, black_count the numbers of records tagged with each side; for
\* the empty collection every field is 0.
C21_StatsFields ==
    pc = "returned" =>
       LET ms == mistakes
           n == Len(ms)
           xs == Severities(ms)
           out == response[1].out
       IN IF n = 0
          THEN out = [total |-> 0, avg_cp |-> 0, median_cp |-> 0,
                      total_frequency |-> 0, max_cp |-> 0,
                      white_count |-> 0, black_count |-> 0]
          ELSE /\ out.total = n
               /\ out.total_frequency
                     = SumOver([i \in 1..n |-> ms[i].pair_count], 1..n)
               /\ out.max_cp = KthSmallest(xs, n)
               /\ IsRounded(out.avg_cp, SumOver(xs, 1..n), n)
               /\ IF n % 2 = 1
                  THEN out.median_cp = KthSmallest(xs, (n + 1) \div 2)
                  ELSE IsRounded(out.median_cp,
                                 KthSmallest(xs, n \div 2)
                                   + KthSmallest(xs, n \div 2 + 1), 2)
               /\ out.white_count = Cardinality(Tagged(ms, "white"))
               /\ out.black_count = Cardinality(Tagged(ms, "black"))

\* C21 witness: three records given out of order, of both sides and one
\* untagged, whose mean 307/3 is rounded down to 102 and whose median is
\* the middle severity 102.
C21_Witness ==
    /\ pc = "returned"
    /\ Len(mistakes) = 3
    /\ Severities(mistakes) = <<104, 101, 102>>
    /\ response[1].out = [total |-> 3, avg_cp |-> 102, median_cp |-> 102,
                         total_frequency |-> 8, max_cp |-> 104,
                         white_count |-> 1, black_count |-> 1]


(***************************************************************************)
(* C22.  What analyze_pgn can return on the games a side's file holds now. *)
(***************************************************************************)
ResultsOf(games, c) ==
    {r.result.mistakes : r \in {x \in AnalyzeOutcomes :
                                    /\ x.games = games /\ x.color = c
                                    /\ x.result.kind = "returned"}}

\* C22: a result collection stored for a side whose games file exists is a
\* result of the analysis of the games that file holds now; a run started on
\* the games of an earlier upload does not leave its results there.
C22_ResultsOfCurrentCorpus ==
    \A c \in Colors :
       (analysis_file[c] # None /\ pgn_file[c] # None)
          => analysis_file[c][1] \in ResultsOf(pgn_file[c][1], c)


(***************************************************************************)
(* C23.  Delete requests beside a run's write and beside each other.      *)
(***************************************************************************)
\* The step in which request d writes the file.
DeleteWriteStep(d) ==
    /\ d \in DOMAIN requests /\ requests[d].pc = "read"
    /\ requests'[d].pc = "done"
    /\ analysis_file' # analysis_file

\* The collection a run of the side has persisted and that is in the file.
PersistedBy(c) ==
    {runs[i].result.mistakes : i \in {j \in RunsOf(c) :
        /\ runs[j].pc = "finally" /\ runs[j].wrote = {"results"}
        /\ analysis_file[c] = Some(runs[j].result.mistakes)}}

\* l without the records at the places i and j (0-based, distinct).
RemoveBoth(l, i, j) ==
    LET keep == {k \in 1..Len(l) : k # i + 1 /\ k # j + 1}
        Nth(n) == CHOOSE k \in keep : Cardinality({m \in keep : m < k}) = n - 1
    IN [n \in 1..Cardinality(keep) |-> l[Nth(n)]]

\* Request e has written, it and d read the same collection, and their
\* indices are distinct places of it; nothing else wrote since.
ConcurrentWith(d, e) ==
    /\ e \in DOMAIN requests /\ e # d
    /\ requests[e].pc = "done" /\ requests[e].status = 204
    /\ requests[e].color = requests[d].color
    /\ requests[e].read = requests[d].read
    /\ requests[e].index # requests[d].index
    /\ InBounds(requests[e].index, Len(requests[d].read[1]))
    /\ InBounds(requests[d].index, Len(requests[d].read[1]))
    /\ analysis_file[requests[d].color]
          = Some(Pop(requests[d].read[1], requests[e].index))

\* C23: no update is lost.  A delete request's write on a file holding the
\* collection a run has persisted leaves that collection less the record of
\* the request's index, never data read before the run's write; and the
\* second write of two concurrent deletes of distinct in-bounds indices
\* leaves the collection without both records.
C23_NoLostUpdate ==
    [][\A d \in 1..MaxDeletes :
          DeleteWriteStep(d) =>
             LET c == requests[d].color IN
             /\ \A kept \in PersistedBy(c) :
                   analysis_file'[c] = delete_mistake(Some(kept), requests[d].index).file
             /\ \A e \in 1..MaxDeletes :
                   ConcurrentWith(d, e) =>
                      analysis_file'[c] = Some(RemoveBoth(requests[d].read[1],
                                                         requests[d].index,
                                                         requests[e].index))]_vars

====
